---------------------------- MODULE Spec2Model ----------------------------
(***************************************************************************)
(* A model of the task-management API of src/main.py: registration, login, *)
(* bearer-token authentication and the owner-scoped task endpoints, over   *)
(* the two tables of src/models/models.py.                                 *)
(*                                                                         *)
(* Time is counted in minutes.  Cryptographic primitives of the libraries  *)
(* (bcrypt, HMAC-SHA256) are free constructors: a digest is the term       *)
(* <<"bcrypt", salt, plaintext>>, a signature the term                     *)
(* <<"HS256", key, payload>>; verification recomputes the term and         *)
(* compares.                                                               *)
(*                                                                         *)
(* Three specifications:                                                   *)
(*   Spec       requests served one after the other, each handler one step *)
(*              followed by the closing of its session                     *)
(*   SpecConc   register requests interleaved at their await points        *)
(*   SpecToken  create_access_token / jwt.decode on drawn inputs, with a   *)
(*              one-minute clock                                           *)
(***************************************************************************)
EXTENDS Integers, FiniteSets, Sequences, TLC

VARIABLES
    users,      \* rows of table "User"
    tasks,      \* rows of table "Task"
    userSeq,    \* last value drawn from the "User".id sequence
    taskSeq,    \* last value drawn from the "Task".id sequence
    now,        \* the clock, in minutes
    req,        \* the request served last: its endpoint and path parameter
    resp,       \* its response: [status, body]
    written,    \* history, by task id: the subject of the token that created
                \* the task, the fields written last, whether it was deleted
    proc        \* SpecConc: the register requests in flight, by client

vars == <<users, tasks, userSeq, taskSeq, now, req, resp, written, proc>>

----------------------------------------------------------------------------
(* Program constants *)

SECRET_KEY == "your-secret-key"
ALGORITHM == "HS256"
ACCESS_TOKEN_EXPIRE_MINUTES == 30
\* create_access_token's fallback when expires_delta is falsy
DEFAULT_EXPIRE_MINUTES == 15

HTTP_200_OK == 200
HTTP_201_CREATED == 201
HTTP_204_NO_CONTENT == 204
HTTP_400_BAD_REQUEST == 400
HTTP_401_UNAUTHORIZED == 401
HTTP_404_NOT_FOUND == 404
HTTP_500_INTERNAL_SERVER_ERROR == 500

----------------------------------------------------------------------------
(* Bounds of the model *)

\* the clock of Spec advances TickStep minutes at a time, up to MaxTime
TickStep == 20
MaxTime == 45
\* at most MaxTaskId rows are ever inserted into "Task"
MaxTaskId == 2
\* the clock of SpecToken advances one minute at a time, up to MaxClock
MaxClock == 17

Usernames == {"alice", "bob"}
Passwords == {"pw1", "pw2"}
Salts == {1}
Clients == {1, 2, 3}
\* expires_delta arguments of create_access_token drawn in SpecToken:
\* timedeltas of so many minutes, and NoDelta for the omitted argument
NoDelta == [none |-> TRUE]
Deltas == {NoDelta} \cup {[minutes |-> m] : m \in {0, 1, 2, 16}}

\* Python's None, as a username and as a row
None == "None"
NoRow == [none |-> TRUE]
NoRequest == [op |-> "none"]
NoResponse == [status |-> 0, body |-> [none |-> TRUE]]

\* TaskCreate request bodies (src/schemas.py)
TaskBodies ==
    { [title |-> "t1", description |-> "d1", is_complete |-> FALSE],
      [title |-> "t2", description |-> "d2", is_complete |-> TRUE] }

TaskIds == 1..(MaxTaskId + 1)

----------------------------------------------------------------------------
(* Credential hasher: passlib's bcrypt context *)

Bcrypt(salt, plain) == <<"bcrypt", salt, plain>>

get_password_hash(password, salt) ==
    [salt |-> salt, digest |-> Bcrypt(salt, password)]

verify_password(plain_password, hashed_password) ==
    Bcrypt(hashed_password.salt, plain_password) = hashed_password.digest

----------------------------------------------------------------------------
(* Token issuer / validator: python-jose *)

Hmac(key, payload) == <<ALGORITHM, key, payload>>

jwt_encode(payload, key) == [payload |-> payload, sig |-> Hmac(key, payload)]

\* a string that is no three-part token
Malformed == [malformed |-> TRUE]
\* no Authorization header
NoToken == [absent |-> TRUE]
JWTError == [error |-> "JWTError"]

\* Python truthiness of a timedelta: timedelta(0) is falsy, as is None
Truthy(expires_delta) ==
    expires_delta # NoDelta /\ expires_delta.minutes # 0

create_access_token(data, expires_delta, clock) ==
    LET expire == IF Truthy(expires_delta)
                  THEN clock + expires_delta.minutes
                  ELSE clock + DEFAULT_EXPIRE_MINUTES
    IN  jwt_encode([sub |-> data.sub, exp |-> expire], SECRET_KEY)

\* mutant: the exp claim is not checked
jwt_decode_no_exp(token, key, clock) ==
    IF token = Malformed \/ token = NoToken THEN JWTError
    ELSE IF token.sig # Hmac(key, token.payload) THEN JWTError
    ELSE token.payload

\* jwt.decode: the signature, then the exp claim (expired when exp < now)
jwt_decode(token, key, clock) ==
    IF token = Malformed \/ token = NoToken THEN JWTError
    ELSE IF token.sig # Hmac(key, token.payload) THEN JWTError
    ELSE IF token.payload.exp < clock THEN JWTError
    ELSE token.payload

----------------------------------------------------------------------------
(* User store *)

get_user(db_users, username) ==
    IF \E u \in db_users : u.username = username
    THEN CHOOSE u \in db_users : u.username = username
    ELSE NoRow

\* mutant: the password is not verified
authenticate_user_any_password(db_users, username, password) ==
    get_user(db_users, username)

authenticate_user(db_users, username, password) ==
    LET user == get_user(db_users, username)
    IN  IF user = NoRow THEN NoRow
        ELSE IF ~ verify_password(password, user.hashed_password) THEN NoRow
        ELSE user

Unauthorized == [status |-> HTTP_401_UNAUTHORIZED,
                 body |-> [detail |-> "Could not validate credentials"]]

\* the try block of get_current_user: the token's subject, or None for the
\* credentials exception (and for OAuth2PasswordBearer's own 401 when no
\* Authorization header is sent)
token_subject(token, clock) ==
    IF token = NoToken THEN None
    ELSE LET payload == jwt_decode(token, SECRET_KEY, clock)
         IN  IF payload = JWTError THEN None ELSE payload.sub

\* the dependency of every protected endpoint: the user row, or NoRow for
\* the credentials exception
get_current_user(db_users, token, clock) ==
    LET username == token_subject(token, clock)
    IN  IF username = None THEN NoRow ELSE get_user(db_users, username)

----------------------------------------------------------------------------
(* Task store *)

db_get_task(db_tasks, task_id) ==
    IF \E t \in db_tasks : t.id = task_id
    THEN CHOOSE t \in db_tasks : t.id = task_id
    ELSE NoRow

\* response_model=TaskCreate: the three fields of the schema
TaskCreateView(task) ==
    [title |-> task.title, description |-> task.description,
     is_complete |-> task.is_complete]

\* response_model=List[TaskCreate]: the views with their multiplicities
TaskCreateList(rows) ==
    [v \in {TaskCreateView(t) : t \in rows} |->
        Cardinality({t \in rows : TaskCreateView(t) = v})]

NotFound == [status |-> HTTP_404_NOT_FOUND, body |-> [detail |-> "Task not found"]]

----------------------------------------------------------------------------
(* Initial state: both tables empty, both sequences unused *)

Init ==
    /\ users = {}
    /\ tasks = {}
    /\ userSeq = 0
    /\ taskSeq = 0
    /\ now = 0
    /\ req = NoRequest
    /\ resp = NoResponse
    /\ written = <<>>
    /\ proc = [c \in Clients |-> [pc |-> "idle"]]

NewUser(id, username, hashed_password, clock) ==
    [id |-> id, username |-> username, hashed_password |-> hashed_password,
     created_at |-> clock]

NewTask(id, task, owner_id, clock) ==
    [id |-> id, title |-> task.title, description |-> task.description,
     is_complete |-> task.is_complete, owner_id |-> owner_id,
     created_at |-> clock]

----------------------------------------------------------------------------
(* Handlers, one request at a time: a handler is entered when the request  *)
(* before it has been answered and its session closed                      *)

Idle == req = NoRequest

\* unique=True on "User".username: the INSERT of a second row is refused
unique_violation(db_users, username) ==
    \E u \in db_users : u.username = username

\* mutant: the lookup's result is ignored
register_conflict_never(db_user) == FALSE

\* "if db_user:" of register
register_conflict(db_user) == db_user # NoRow

UsernameTaken == [status |-> HTTP_400_BAD_REQUEST,
                  body |-> [detail |-> "Username already registered"]]
Registered == [status |-> HTTP_200_OK,
               body |-> [msg |-> "User registered successfully"]]
\* an exception no handler catches
InternalServerError == [status |-> HTTP_500_INTERNAL_SERVER_ERROR,
                        body |-> [detail |-> "Internal Server Error"]]

\* POST /register/ : the INSERT draws an id from the sequence at commit
Register(username, password, salt) ==
    Idle /\
    LET db_user == get_user(users, username) IN
    /\ req' = [op |-> "register", username |-> username]
    /\ IF register_conflict(db_user)
       THEN /\ resp' = UsernameTaken
            /\ UNCHANGED <<users, userSeq>>
       ELSE IF unique_violation(users, username)
       THEN /\ resp' = InternalServerError
            /\ userSeq' = userSeq + 1
            /\ UNCHANGED users
       ELSE /\ userSeq' = userSeq + 1
            /\ users' = users \cup
                   {NewUser(userSeq + 1, username,
                            get_password_hash(password, salt), now)}
            /\ resp' = Registered
    /\ UNCHANGED <<tasks, taskSeq, now, written, proc>>

\* POST /token
Login(username, password) ==
    Idle /\
    LET user == authenticate_user(users, username, password) IN
    /\ req' = [op |-> "login", username |-> username]
    /\ IF user = NoRow
       THEN resp' = [status |-> HTTP_401_UNAUTHORIZED,
                     body |-> [detail |-> "Incorrect username or password"]]
       ELSE resp' = [status |-> HTTP_200_OK,
                     body |-> [access_token |->
                                  create_access_token([sub |-> user.username],
                                      [minutes |-> ACCESS_TOKEN_EXPIRE_MINUTES], now),
                               token_type |-> "bearer"]]
    /\ UNCHANGED <<users, tasks, userSeq, taskSeq, now, written, proc>>

\* GET /users/me/ : the User row as it is, no response_model.  Its
\* dependency is the first definition of get_current_user, which differs from
\* the second in nothing but the order of its parameters.
ReadUsersMe(token) ==
    Idle /\
    LET current_user == get_current_user(users, token, now) IN
    /\ req' = [op |-> "me"]
    /\ IF current_user = NoRow
       THEN resp' = Unauthorized
       ELSE resp' = [status |-> HTTP_200_OK, body |-> current_user]
    /\ UNCHANGED <<users, tasks, userSeq, taskSeq, now, written, proc>>

\* POST /tasks/
CreateTask(token, task) ==
    Idle /\
    LET current_user == get_current_user(users, token, now) IN
    /\ req' = [op |-> "create"]
    /\ IF current_user = NoRow
       THEN /\ resp' = Unauthorized
            /\ UNCHANGED <<tasks, taskSeq, written>>
       ELSE LET new_task == NewTask(taskSeq + 1, task, current_user.id, now) IN
            /\ taskSeq < MaxTaskId
            /\ taskSeq' = taskSeq + 1
            /\ tasks' = tasks \cup {new_task}
            /\ resp' = [status |-> HTTP_201_CREATED, body |-> new_task]
            /\ written' = written @@
                   (new_task.id :> [creator |-> token.payload.sub,
                                    task |-> task, deleted |-> FALSE])
    /\ UNCHANGED <<users, userSeq, now, proc>>

\* mutant: the owner filter is dropped
get_tasks_rows_all(db_tasks, current_user) == db_tasks

\* the rows GET /tasks/ selects
get_tasks_rows(db_tasks, current_user) ==
    {t \in db_tasks : t.owner_id = current_user.id}

\* GET /tasks/
GetTasks(token) ==
    Idle /\
    LET current_user == get_current_user(users, token, now) IN
    /\ req' = [op |-> "list"]
    /\ IF current_user = NoRow
       THEN resp' = Unauthorized
       ELSE resp' = [status |-> HTTP_200_OK,
                     body |-> [items |->
                        TaskCreateList(get_tasks_rows(tasks, current_user))]]
    /\ UNCHANGED <<users, tasks, userSeq, taskSeq, now, written, proc>>

\* the 404 guards of GET, PUT and DELETE /tasks/{task_id}
get_task_missing(task, current_user) ==
    task = NoRow \/ task.owner_id # current_user.id

update_task_missing(db_task, current_user) ==
    db_task = NoRow \/ db_task.owner_id # current_user.id

\* mutant: the owner is not compared
delete_task_missing_any_owner(task, current_user) == task = NoRow

delete_task_missing(task, current_user) ==
    task = NoRow \/ task.owner_id # current_user.id

\* GET /tasks/{task_id}
GetTask(token, task_id) ==
    Idle /\
    LET current_user == get_current_user(users, token, now)
        task == db_get_task(tasks, task_id)
    IN
    /\ req' = [op |-> "get", task_id |-> task_id]
    /\ IF current_user = NoRow THEN resp' = Unauthorized
       ELSE IF get_task_missing(task, current_user) THEN resp' = NotFound
       ELSE resp' = [status |-> HTTP_200_OK, body |-> TaskCreateView(task)]
    /\ UNCHANGED <<users, tasks, userSeq, taskSeq, now, written, proc>>

\* mutant: description is not assigned
update_task_row_no_description(db_task, task) ==
    [db_task EXCEPT !.title = task.title, !.is_complete = task.is_complete]

\* the row PUT /tasks/{task_id} commits
update_task_row(db_task, task) ==
    [db_task EXCEPT !.title = task.title,
                    !.description = task.description,
                    !.is_complete = task.is_complete]

\* PUT /tasks/{task_id}
UpdateTask(token, task_id, task) ==
    Idle /\
    LET current_user == get_current_user(users, token, now)
        db_task == db_get_task(tasks, task_id)
    IN
    /\ req' = [op |-> "update", task_id |-> task_id]
    /\ IF current_user = NoRow
       THEN /\ resp' = Unauthorized
            /\ UNCHANGED <<tasks, written>>
       ELSE IF update_task_missing(db_task, current_user)
       THEN /\ resp' = NotFound
            /\ UNCHANGED <<tasks, written>>
       ELSE /\ tasks' = (tasks \ {db_task}) \cup {update_task_row(db_task, task)}
            /\ resp' = [status |-> HTTP_200_OK,
                        body |-> TaskCreateView(update_task_row(db_task, task))]
            /\ written' = [written EXCEPT ![task_id].task = task]
    /\ UNCHANGED <<users, userSeq, taskSeq, now, proc>>

\* mutant: the DELETE is not committed
delete_task_rows_kept(db_tasks, task) == db_tasks

\* the table after DELETE /tasks/{task_id} commits
delete_task_rows(db_tasks, task) == db_tasks \ {task}

\* DELETE /tasks/{task_id}
DeleteTask(token, task_id) ==
    Idle /\
    LET current_user == get_current_user(users, token, now)
        task == db_get_task(tasks, task_id)
    IN
    /\ req' = [op |-> "delete", task_id |-> task_id]
    /\ IF current_user = NoRow
       THEN /\ resp' = Unauthorized
            /\ UNCHANGED <<tasks, written>>
       ELSE IF delete_task_missing(task, current_user)
       THEN /\ resp' = NotFound
            /\ UNCHANGED <<tasks, written>>
       ELSE /\ tasks' = delete_task_rows(tasks, task)
            /\ resp' = [status |-> HTTP_204_NO_CONTENT,
                        body |-> [detail |-> "Task deleted"]]
            /\ written' = [written EXCEPT ![task_id].deleted = TRUE]
    /\ UNCHANGED <<users, userSeq, taskSeq, now, proc>>

\* the request's session is closed when its response has been sent: the
\* exit of get_db's "async with"
Close ==
    /\ req # NoRequest
    /\ req' = NoRequest
    /\ resp' = NoResponse
    /\ UNCHANGED <<users, tasks, userSeq, taskSeq, now, written, proc>>

\* time passes between requests
Tick ==
    /\ Idle
    /\ now + TickStep <= MaxTime
    /\ now' = now + TickStep
    /\ UNCHANGED <<users, tasks, userSeq, taskSeq, req, resp, written, proc>>

----------------------------------------------------------------------------
(* Requests drawn in Spec *)

\* a token as the server issues it, and tokens a client can make up
Signed(sub, exp, key) == jwt_encode([sub |-> sub, exp |-> exp], key)

RequestTokens ==
    {NoToken, Malformed,
     Signed("alice", ACCESS_TOKEN_EXPIRE_MINUTES, SECRET_KEY),
     Signed("bob", ACCESS_TOKEN_EXPIRE_MINUTES, SECRET_KEY),
     Signed("alice", ACCESS_TOKEN_EXPIRE_MINUTES, "not-the-key"),
     Signed(None, ACCESS_TOKEN_EXPIRE_MINUTES, SECRET_KEY)}

Next ==
    \/ \E u \in Usernames, p \in Passwords, s \in Salts : Register(u, p, s)
    \/ \E u \in Usernames, p \in Passwords : Login(u, p)
    \/ \E tok \in RequestTokens : ReadUsersMe(tok)
    \/ \E tok \in RequestTokens, b \in TaskBodies : CreateTask(tok, b)
    \/ \E tok \in RequestTokens : GetTasks(tok)
    \/ \E tok \in RequestTokens, id \in TaskIds : GetTask(tok, id)
    \/ \E tok \in RequestTokens, id \in TaskIds, b \in TaskBodies :
            UpdateTask(tok, id, b)
    \/ \E tok \in RequestTokens, id \in TaskIds : DeleteTask(tok, id)
    \/ Close
    \/ Tick

Spec == Init /\ [][Next]_vars

----------------------------------------------------------------------------
(* SpecConc: register requests interleaved.  A request runs to its first   *)
(* await that another request can overtake (the SELECT of get_user), then  *)
(* to its commit, where the INSERT meets the unique index on username.     *)

\* register up to "db_user = await get_user(...)" and the 400 it may raise
RegisterLookup(c, username, password, salt) ==
    LET db_user == get_user(users, username) IN
    /\ proc[c].pc = "idle"
    /\ req' = [op |-> "register", username |-> username]
    /\ IF register_conflict(db_user)
       THEN /\ resp' = UsernameTaken
            /\ proc' = [proc EXCEPT ![c] =
                   [pc |-> "done", username |-> username,
                    status |-> HTTP_400_BAD_REQUEST]]
       ELSE /\ resp' = NoResponse
            /\ proc' = [proc EXCEPT ![c] =
                   [pc |-> "commit", username |-> username,
                    hashed_password |-> get_password_hash(password, salt)]]
    /\ UNCHANGED <<users, tasks, userSeq, taskSeq, now, written>>

\* register from "await db.commit()": the INSERT draws an id from the
\* sequence; IntegrityError is caught nowhere and is answered 500
RegisterCommit(c) ==
    /\ proc[c].pc = "commit"
    /\ req' = [op |-> "register", username |-> proc[c].username]
    /\ userSeq' = userSeq + 1
    /\ IF unique_violation(users, proc[c].username)
       THEN /\ UNCHANGED users
            /\ resp' = InternalServerError
            /\ proc' = [proc EXCEPT ![c] =
                   [pc |-> "done", username |-> proc[c].username,
                    status |-> HTTP_500_INTERNAL_SERVER_ERROR]]
       ELSE /\ users' = users \cup
                   {NewUser(userSeq + 1, proc[c].username,
                            proc[c].hashed_password, now)}
            /\ resp' = Registered
            /\ proc' = [proc EXCEPT ![c] =
                   [pc |-> "done", username |-> proc[c].username,
                    status |-> HTTP_200_OK]]
    /\ UNCHANGED <<tasks, taskSeq, now, written>>

NextConc ==
    \/ \E c \in Clients, u \in Usernames, p \in Passwords, s \in Salts :
            RegisterLookup(c, u, p, s)
    \/ \E c \in Clients : RegisterCommit(c)

SpecConc == Init /\ [][NextConc]_vars

----------------------------------------------------------------------------
(* SpecToken: a token is issued by create_access_token and validated by    *)
(* the try block of get_current_user as the minutes pass.                  *)

Issue(sub, expires_delta) ==
    /\ req.op = "none"
    /\ req' = [op |-> "issue", sub |-> sub, expires_delta |-> expires_delta,
               issued_at |-> now,
               token |-> create_access_token([sub |-> sub], expires_delta, now)]
    /\ resp' = NoResponse
    /\ UNCHANGED <<users, tasks, userSeq, taskSeq, now, written, proc>>

Validate ==
    LET username == token_subject(req.token, now) IN
    /\ req.op \in {"issue", "validate"}
    /\ req' = [req EXCEPT !.op = "validate"]
    /\ IF username = None
       THEN resp' = Unauthorized
       ELSE resp' = [status |-> HTTP_200_OK, body |-> [username |-> username]]
    /\ UNCHANGED <<users, tasks, userSeq, taskSeq, now, written, proc>>

TickMinute ==
    /\ now < MaxClock
    /\ now' = now + 1
    /\ req' = IF req.op = "validate" THEN [req EXCEPT !.op = "issue"] ELSE req
    /\ resp' = NoResponse
    /\ UNCHANGED <<users, tasks, userSeq, taskSeq, written, proc>>

NextToken ==
    \/ \E sub \in Usernames, d \in Deltas : Issue(sub, d)
    \/ Validate
    \/ TickMinute

SpecToken == Init /\ [][NextToken]_vars

----------------------------------------------------------------------------
(* What the claims speak of, said without the handlers' own definitions *)

\* token is a well-signed, unexpired token whose subject is user's name
Presents(token, user) ==
    /\ token \notin {NoToken, Malformed}
    /\ token.sig = Hmac(SECRET_KEY, token.payload)
    /\ token.payload.exp >= now
    /\ token.payload.sub = user.username

\* token is absent, malformed, badly signed, expired, without subject, or
\* names a subject with no User row
BadToken(token) ==
    \/ token \in {NoToken, Malformed}
    \/ token.sig # Hmac(SECRET_KEY, token.payload)
    \/ token.payload.exp < now
    \/ token.payload.sub = None
    \/ ~ \E u \in users : u.username = token.payload.sub

StoresUnchanged ==
    UNCHANGED <<users, tasks, userSeq, taskSeq>>

----------------------------------------------------------------------------
(* C1 *)

\* C1: ownership isolation.  When user A presents a valid token and task t
\* belongs to another user, GET, PUT and DELETE of /tasks/{t.id} answer the
\* 404 "Task not found" that an id with no row gets, and no row changes.
C1_Step ==
    req'.op \in {"get", "update", "delete"} =>
    \A tok \in RequestTokens, a \in users :
        Presents(tok, a) =>
            LET id == req'.task_id
                t == IF \E x \in tasks : x.id = id
                     THEN CHOOSE x \in tasks : x.id = id ELSE NoRow
                foreign == t # NoRow /\ t.owner_id # a.id
                absent == t = NoRow
                refused == resp' = NotFound /\ StoresUnchanged
            IN  (foreign \/ absent) =>
                  /\ (req'.op = "get" /\ GetTask(tok, id)) => refused
                  /\ (req'.op = "delete" /\ DeleteTask(tok, id)) => refused
                  /\ \A b \in TaskBodies :
                        (req'.op = "update" /\ UpdateTask(tok, id, b)) => refused

\* C1: ownership isolation: every step of the program is a C1_Step (a user's
\* GET, PUT or DELETE of a foreign or absent task answers 404, changing nothing)
C1_OwnershipIsolation == [][C1_Step]_vars

\* a DELETE answered 404 although the row exists: the caller was not its owner
C1_Witness ==
    /\ req.op = "delete"
    /\ resp = NotFound
    /\ \E t \in tasks : t.id = req.task_id
    /\ Cardinality(users) = 2

----------------------------------------------------------------------------
(* C2 *)

\* C2: auth gate.  A request to a protected endpoint with a bad token is
\* answered 401 and leaves the User and Task tables as they were: a step of
\* a protected endpoint that is not such a refusal is the step of no request
\* with a bad token.
C2_Step ==
    LET refused == resp'.status = HTTP_401_UNAUTHORIZED /\ StoresUnchanged IN
    (req'.op \in {"me", "list", "create", "get", "update", "delete"}
        /\ ~ refused) =>
    \A tok \in RequestTokens :
        BadToken(tok) =>
            /\ req'.op = "me" => ~ ReadUsersMe(tok)
            /\ req'.op = "list" => ~ GetTasks(tok)
            /\ req'.op = "create" => \A b \in TaskBodies : ~ CreateTask(tok, b)
            /\ req'.op = "get" => ~ GetTask(tok, req'.task_id)
            /\ req'.op = "delete" => ~ DeleteTask(tok, req'.task_id)
            /\ req'.op = "update" =>
                  \A b \in TaskBodies : ~ UpdateTask(tok, req'.task_id, b)

\* C2: auth gate: every step is a C2_Step (a protected endpoint answers a bad
\* token with 401 and changes neither table)
C2_AuthGate == [][C2_Step]_vars

\* a DELETE of an existing task answered 401 once every token has expired
C2_Witness ==
    /\ req.op = "delete"
    /\ resp = Unauthorized
    /\ \E t \in tasks : t.id = req.task_id
    /\ now > ACCESS_TOKEN_EXPIRE_MINUTES

----------------------------------------------------------------------------
(* C3 *)

\* C3: no response body carries a password digest.
C3_NoDigestInResponse == "hashed_password" \notin DOMAIN resp.body

----------------------------------------------------------------------------
(* C4 *)

\* C4: token round trip and expiry.  A token issued for a subject with a
\* time-to-live validates to that subject at every time before the
\* time-to-live has elapsed and is refused at every time after it, and once
\* refused it is never accepted again.
C4_Step ==
    /\ (req'.op = "validate" /\ req'.expires_delta # NoDelta) =>
          LET deadline == req'.issued_at + req'.expires_delta.minutes IN
          /\ now' < deadline =>
                resp' = [status |-> HTTP_200_OK, body |-> [username |-> req'.sub]]
          /\ now' > deadline => resp' = Unauthorized
    /\ (req.op = "validate" /\ resp = Unauthorized /\ req'.op = "validate")
          => resp' = Unauthorized

\* C4: token round trip and expiry: every step is a C4_Step (an issued token
\* validates to its subject before its time-to-live has elapsed, is refused
\* after, and is never accepted again once refused)
C4_TokenRoundTripExpiry == [][C4_Step]_vars

----------------------------------------------------------------------------
(* C5 *)

\* C5: POST /token answers with a bearer token for the username, signed with
\* the server's key and expiring ACCESS_TOKEN_EXPIRE_MINUTES from now, exactly
\* when a User row has that username and a digest the password matches;
\* otherwise it answers the one 401 "Incorrect username or password".
C5_Step ==
    req'.op = "login" =>
    \A u \in Usernames, p \in Passwords :
        Login(u, p) =>
            LET good == \E x \in users :
                          /\ x.username = u
                          /\ x.hashed_password.digest =
                                 Bcrypt(x.hashed_password.salt, p)
            IN  IF good
                THEN /\ resp'.status = HTTP_200_OK
                     /\ resp'.body.token_type = "bearer"
                     /\ resp'.body.access_token.payload =
                           [sub |-> u, exp |-> now + ACCESS_TOKEN_EXPIRE_MINUTES]
                     /\ resp'.body.access_token.sig =
                           Hmac(SECRET_KEY, resp'.body.access_token.payload)
                ELSE resp' = [status |-> HTTP_401_UNAUTHORIZED,
                              body |-> [detail |-> "Incorrect username or password"]]

\* C5: every step is a C5_Step (login issues a 30-minute token for the
\* username if and only if the credentials are good, else the one 401)
C5_LoginIffGoodCredentials == [][C5_Step]_vars

\* a login refused although the username is registered: the password was wrong
C5_Witness ==
    /\ req.op = "login"
    /\ resp.status = HTTP_401_UNAUTHORIZED
    /\ \E x \in users : x.username = req.username

----------------------------------------------------------------------------
(* C6 *)

\* C6: registering a username that has a User row answers 400 and leaves
\* that row (id, username, hashed_password, created_at) and the table as they
\* were: a password logs in afterwards exactly if it did before.
C6_Step ==
    req'.op = "register" =>
    \A u \in Usernames, p \in Passwords, s \in Salts :
        (Register(u, p, s) /\ \E x \in users : x.username = u) =>
            /\ resp'.status = HTTP_400_BAD_REQUEST
            /\ users' = users
            /\ \A q \in Passwords :
                  (authenticate_user(users', u, q) # NoRow)
                      <=> \E x \in users :
                            /\ x.username = u
                            /\ x.hashed_password.digest =
                                   Bcrypt(x.hashed_password.salt, q)

\* C6: every step is a C6_Step (registering a taken username answers 400 and
\* leaves the first user row, and the passwords that log in, as they were)
C6_SecondRegisterConflict == [][C6_Step]_vars

\* a second registration of a username was refused
C6_Witness ==
    /\ req.op = "register"
    /\ resp.status = HTTP_400_BAD_REQUEST
    /\ \E x \in users : x.username = req.username

----------------------------------------------------------------------------
(* C7 *)

\* the tasks the holder of username has created and not deleted, each with
\* the fields written last, counted by fields: from the history alone
ExpectedList(username) ==
    LET ids == {id \in DOMAIN written :
                  written[id].creator = username /\ ~ written[id].deleted}
    IN  [v \in {written[id].task : id \in ids} |->
            Cardinality({id \in ids : written[id].task = v})]

\* C7: GET /tasks/ answers with exactly the tasks the caller created and has
\* not deleted, each with the fields written last, the rows it selects all
\* have the caller's id as owner_id, and the task POST /tasks/ answers with
\* has the caller's id as owner_id.
C7_Step ==
    req'.op \in {"list", "create"} =>
    \A tok \in RequestTokens, a \in users :
        Presents(tok, a) =>
            /\ (req'.op = "list" /\ GetTasks(tok)) =>
                  /\ resp'.status = HTTP_200_OK
                  /\ resp'.body.items = ExpectedList(a.username)
                  /\ \A t \in tasks :
                        t.owner_id # a.id => written[t.id].creator # a.username
            /\ \A b \in TaskBodies :
                  (req'.op = "create" /\ CreateTask(tok, b)) =>
                      /\ resp'.status = HTTP_201_CREATED
                      /\ resp'.body.owner_id = a.id
                      /\ TaskCreateView(resp'.body) = b
                      /\ tasks' = tasks \cup {resp'.body}
                      /\ resp'.body.id \notin {t.id : t \in tasks}

\* C7: every step is a C7_Step (GET /tasks/ answers exactly the caller's
\* undeleted tasks with their last-written fields; a created task is owned by
\* the caller)
C7_ListIsCallersTasks == [][C7_Step]_vars

\* a list of one task answered while the table holds a second, foreign, task
\* and a task has been deleted
C7_Witness ==
    /\ req.op = "list"
    /\ resp.status = HTTP_200_OK
    /\ \E v \in DOMAIN resp.body.items : resp.body.items[v] = 1
    /\ Cardinality(DOMAIN resp.body.items) = 1
    /\ Cardinality(tasks) = 2
    /\ Cardinality({t.owner_id : t \in tasks}) = 2

----------------------------------------------------------------------------
(* C8 *)

\* C8: DELETE /tasks/{id} of a task the caller owns answers 204 and removes
\* that row and no other: the task is then absent from what GET /tasks/ and
\* GET /tasks/{id} read; a later DELETE of the same id by the same caller
\* answers 404; neither call changes another task or any user.
C8_Step ==
    req'.op = "delete" =>
    \A tok \in RequestTokens, a \in users :
        (Presents(tok, a) /\ DeleteTask(tok, req'.task_id)) =>
            LET id == req'.task_id IN
            /\ \A t \in tasks :
                  (t.id = id /\ t.owner_id = a.id) =>
                      /\ resp'.status = HTTP_204_NO_CONTENT
                      /\ tasks' = tasks \ {t}
                      /\ ~ \E x \in tasks' : x.id = id
                      /\ UNCHANGED <<users, userSeq, taskSeq>>
            /\ (id \in DOMAIN written /\ written[id].deleted
                    /\ written[id].creator = a.username) =>
                      /\ resp' = NotFound
                      /\ StoresUnchanged

\* C8: every step is a C8_Step (the owner's first DELETE answers 204 and
\* removes just that row, a later one answers 404 and changes nothing)
C8_DeleteTwice == [][C8_Step]_vars

\* a DELETE answered 404 for a task that an earlier DELETE removed
C8_Witness ==
    /\ req.op = "delete"
    /\ resp = NotFound
    /\ req.task_id \in DOMAIN written
    /\ written[req.task_id].deleted
    /\ tasks # {}

----------------------------------------------------------------------------
(* C9 *)

Finished(username) ==
    {c \in Clients : proc[c].pc = "done" /\ proc[c].username = username}

InFlight(username) ==
    {c \in Clients : proc[c].pc = "commit" /\ proc[c].username = username}

\* C9: under any interleaving of register requests for one username, at most
\* one User row has the username, every request that has ended was answered
\* 200 or 400, and once all have ended exactly one was answered 200.
C9_ConcurrentRegister ==
    \A u \in Usernames :
        /\ Cardinality({x \in users : x.username = u}) <= 1
        /\ \A c \in Finished(u) :
              proc[c].status \in {HTTP_200_OK, HTTP_400_BAD_REQUEST}
        /\ (Finished(u) # {} /\ InFlight(u) = {}) =>
              Cardinality({c \in Finished(u) : proc[c].status = HTTP_200_OK}) = 1

----------------------------------------------------------------------------
(* C10 *)

\* every task has one row, whose owner_id is the id of the one User row of
\* the user that created it
C10_Owned ==
    \A t \in tasks :
        /\ Cardinality({x \in tasks : x.id = t.id}) = 1
        /\ Cardinality({u \in users : u.id = t.owner_id}) = 1
        /\ \A u \in users :
              u.id = t.owner_id => u.username = written[t.id].creator

\* C10: every task has exactly one owner_id, that of an existing user, its
\* creator; PUT /tasks/{id} by the owner replaces title, description and
\* is_complete of that row by the request's and changes nothing else: not
\* the row's id, owner_id or created_at, no other task, no user.
C10_Step ==
    /\ UNCHANGED <<users, tasks, written>> \/ C10_Owned'
    /\ req'.op = "update" =>
        \A tok \in RequestTokens, a \in users, b \in TaskBodies :
            (Presents(tok, a) /\ UpdateTask(tok, req'.task_id, b)) =>
                \A t \in tasks :
                    (t.id = req'.task_id /\ t.owner_id = a.id) =>
                        /\ resp'.status = HTTP_200_OK
                        /\ tasks' = (tasks \ {t}) \cup
                              {[id |-> t.id, title |-> b.title,
                                description |-> b.description,
                                is_complete |-> b.is_complete,
                                owner_id |-> t.owner_id,
                                created_at |-> t.created_at]}
                        /\ UNCHANGED <<users, userSeq, taskSeq>>

\* C10: every step is a C10_Step (each task keeps one owner, its creator, an
\* existing user; the owner's PUT rewrites the three fields of one row only)
C10_OwnershipAndUpdateFrame == [][C10_Step]_vars

\* a PUT rewrote a task created earlier while another task exists
C10_Witness ==
    /\ req.op = "update"
    /\ resp.status = HTTP_200_OK
    /\ Cardinality(tasks) = 2
    /\ \E t \in tasks :
          /\ t.id = req.task_id
          /\ t.created_at < now
          /\ TaskCreateView(t) = resp.body

=============================================================================
